---- MODULE Spec2Model ----
(***************************************************************************)
(* Red-black trees of 01.dataStructure/red_black_tree.                     *)
(*                                                                         *)
(* Part I  : the recursive tree of red_black_tree_recursion.cpp            *)
(*           (rbtree_insert / rbtree_erase over one shared sentinel).      *)
(* Part II : the parent-pointer tree of red_black_tree.cpp (the file whose *)
(*           header names itself rbTree.cpp): rbtree_insert, rbtree_search.*)
(*                                                                         *)
(* Memory is a heap of cells addressed by small integers; address 0 is the *)
(* sentinel of the recursive tree.  Every public call is one action; the   *)
(* statements of the call are applied in source order to a threaded        *)
(* machine state, and every store goes through Wr so that stores into the  *)
(* sentinel are recorded.                                                  *)
(***************************************************************************)
EXTENDS Integers, Sequences, FiniteSets, TLC

\* ------------------------------------------------------------------ bounds
\* keys offered to insert / erase are 0..MaxKey
MaxKey == 6

Keys == 0..MaxKey

\* one cell per key suffices: a duplicate insert allocates nothing
NodeIds == 1..(MaxKey + 1)

\* keys offered where memory is exhausted or a handle is null are 0..FaultMaxKey
FaultMaxKey == 4

FaultKeys == 0..FaultMaxKey

\* keys offered to the parent-pointer tree are -1..IterMaxKey
IterMaxKey == 3

IterKeys == (0 - 1)..IterMaxKey

IterNodeIds == 1..(IterMaxKey + 2)

\* keys offered to the plain binary search tree are -1..BstMaxKey
BstMaxKey == 3

BstKeys == (0 - 1)..BstMaxKey

BstNodeIds == 1..(BstMaxKey + 2)

\* --------------------------------------------------------- program constants
RBTREE_CLR_RED == 0
RBTREE_CLR_BLK == 1
RBTREE_CLR_DBL == 2

RBTREE_INSERT_CLT_NONE == 0
RBTREE_INSERT_CLT_LEFT == 1
RBTREE_INSERT_CLT_RIGHT == 2

\* nil_node: the address of the shared sentinel __nil_node
nil_node == 0

\* nullptr; dereferencing it stops the process (SIGSEGV)
NullPtr == 0 - 1

\* &tree, the handle main passes to every call: the address of main's local
\* t_rbtree, which is no node and not null
TreeHandle == 1

\* the sentinel as init_nil_node leaves it
init_nil_node == [key |-> 0, color |-> RBTREE_CLR_BLK, left |-> nil_node, right |-> nil_node]

\* a cell that is not allocated (never allocated, or released by delete)
FreeCell == [key |-> 0, color |-> 0, left |-> nil_node, right |-> nil_node]

VARIABLES
    heap,     \* recursive tree: address -> t_rbtree_node
    live,     \* recursive tree: addresses handed out by new and not yet deleted
    root,     \* recursive tree: tree->root
    present,  \* keys inserted and not erased since (the reference set)
    last,     \* the call that produced this state, with what it observed
    iheap,    \* parent-pointer tree: address -> t_rbtree_node (0 is main's nil)
    iroot,    \* parent-pointer tree: tree.root
    icount,   \* parent-pointer tree: cells handed out by new
    ikeys,    \* parent-pointer tree: keys passed to rbtree_insert so far
    istatus,  \* parent-pointer tree: "ok", or how the process stopped
    ilast,    \* parent-pointer tree: the call that produced this state
    bheap,    \* plain search tree: address -> t_bstree_node
    broot,    \* plain search tree: tree.root (nullptr when empty)
    bcount,   \* plain search tree: cells handed out by new
    bkeys,    \* plain search tree: keys passed to insert_node_to_bstree so far
    blast     \* plain search tree: the call that produced this state

rvars == <<heap, live, root, present, last>>

ivars == <<iheap, iroot, icount, ikeys, istatus, ilast>>

bvars == <<bheap, broot, bcount, bkeys, blast>>

\* ------------------------------------------------------ the machine state
\* s.h the heap, s.live the allocated cells, s.root tree->root, s.r the value
\* the function that ran last returned, s.nilw every value the sentinel held
\* right after a store into it.  A function of the program is an operator from
\* the machine state before the call to the machine state after it; a
\* statement sequence  a; b; c  reads  c(b(a(s))).
\* s.st is "ok" while the call runs; "bad_alloc" while std::bad_alloc unwinds
\* the call (no further statement runs); "segv" once a null pointer was
\* dereferenced.  s.new is what the next  new t_rbtree_node  does: "ok", "throw"
\* (what operator new does when memory is exhausted) or "null" (the outcome
\* lines 49-51 of rbtree_create_node provide for).  s.out is the vector
\* inorder_traversal fills.  s.stored, s.nullw, s.clr and s.ev record what the
\* call did: a store happened, a null pointer was stored into a link, the
\* colour values stored, and the events noted at the places named below.
Machine(h, l, r) ==
    [h |-> h, live |-> l, root |-> r, r |-> nil_node, nilw |-> {}, st |-> "ok",
     new |-> "ok", in |-> <<>>, out |-> <<>>, stored |-> FALSE, nullw |-> FALSE,
     clr |-> {}, ev |-> {}, depth |-> 0]

\* the call is made when the next  new  will do what `how` says
WithNew(s, how) == [s EXCEPT !.new = how]

\* the call is made with the vector q as its result argument
WithResult(s, q) == [s EXCEPT !.in = q, !.out = q]

\* the process stops on a null pointer dereference
Segv(s) == [s EXCEPT !.st = "segv"]

\* one store  n->f = v
Wr(s, n, f, v) ==
    IF s.st # "ok" THEN s
    ELSE IF n = NullPtr THEN Segv(s)
    ELSE [s EXCEPT !.h[n][f] = v,
                   !.stored = TRUE,
                   !.nullw = @ \/ (f \in {"left", "right"} /\ v = NullPtr),
                   !.clr = IF f = "color" THEN @ \cup {v} ELSE @,
                   !.nilw = IF n = nil_node
                            THEN @ \cup {[s.h[nil_node] EXCEPT ![f] = v]}
                            ELSE @]

\* return p
Return(s, p) == IF s.st # "ok" THEN s ELSE [s EXCEPT !.r = p]

Color(s, n) == s.h[n].color
Left(s, n) == s.h[n].left
Right(s, n) == s.h[n].right
Key(s, n) == s.h[n].key

\* deeper than any tree of the cells there are; stops a walk of a cyclic heap
WalkFuel == MaxKey + 2

\* the nodes of the subtree at n, the node first
RECURSIVE Walk(_, _, _)
Walk(h, n, fuel) ==
    IF n = nil_node \/ fuel = 0 THEN <<>>
    ELSE <<n>> \o Walk(h, h[n].left, fuel - 1) \o Walk(h, h[n].right, fuel - 1)

SeqRange(q) == {q[i] : i \in DOMAIN q}

\* the numbers of BLACK nodes met on the paths from n down to the sentinel
RECURSIVE BlackCounts(_, _, _)
BlackCounts(h, n, fuel) ==
    IF n = nil_node \/ fuel = 0 THEN {0}
    ELSE LET own == IF h[n].color = RBTREE_CLR_BLK THEN 1 ELSE 0
         IN  {own + c : c \in BlackCounts(h, h[n].left, fuel - 1)
                               \cup BlackCounts(h, h[n].right, fuel - 1)}

\* e is noted as having happened during the call
Note(s, e) == IF s.st # "ok" THEN s ELSE [s EXCEPT !.ev = @ \cup {e}]

\* rt->left = <returned value>,  rt->right = <returned value>
AssignLeft(s, rt) == Wr(s, rt, "left", s.r)
AssignRight(s, rt) == Wr(s, rt, "right", s.r)

\* rt->left->color = c,  rt->right->color = c
SetLeftColor(s, rt, c) == Wr(s, Left(s, rt), "color", c)
SetRightColor(s, rt, c) == Wr(s, Right(s, rt), "color", c)

\* rt->color += d,  rt->left->color += d,  rt->right->color += d
AddColor(s, rt, d) == Wr(s, rt, "color", Color(s, rt) + d)
AddLeftColor(s, rt, d) == Wr(s, Left(s, rt), "color", Color(s, Left(s, rt)) + d)
AddRightColor(s, rt, d) == Wr(s, Right(s, rt), "color", Color(s, Right(s, rt)) + d)

\* new t_rbtree_node: the lowest free address (which free address is returned
\* cannot be observed, see the renaming below)
NewAddr(s) == CHOOSE a \in NodeIds \ s.live : \A b \in NodeIds \ s.live : a <= b

\* mutant of CreateAt: the node is created BLACK
MutCreateBlack(s, node, key) ==
    Return(Wr(Wr(Wr(Wr([s EXCEPT !.live = @ \cup {node}],
                       node, "key", key),
                    node, "color", RBTREE_CLR_BLK),
                 node, "right", nil_node),
              node, "left", nil_node),
           node)

\* the body of rbtree_create_node once new has returned node; the allocation
\* is noted
CreateAt(s, node, key) ==
    Return(Wr(Wr(Wr(Wr(Note([s EXCEPT !.live = @ \cup {node}],
                            [at |-> "new", node |-> node]),
                       node, "key", key),
                    node, "color", RBTREE_CLR_RED),
                 node, "right", nil_node),
              node, "left", nil_node),
           node)

\* new throws std::bad_alloc, or yields nullptr and line 50 returns it, or
\* yields a node
rbtree_create_node(s, key) ==
    IF s.new = "throw" THEN [s EXCEPT !.st = "bad_alloc"]
    ELSE IF s.new = "null" THEN Return(s, NullPtr)
    ELSE CreateAt(s, NewAddr(s), key)

\* mutant of SAFE_DELETE_NODE: the node is not freed
MutSafeDeleteNothing(s, node) == s

\* SAFE_DELETE_NODE(node); the release is noted
SAFE_DELETE_NODE(s, node) ==
    Note([s EXCEPT !.h[node] = FreeCell, !.live = @ \ {node}],
         [at |-> "delete", node |-> node])

has_red_child_node(s, node) ==
    \/ Color(s, Left(s, node)) = RBTREE_CLR_RED
    \/ Color(s, Right(s, node)) = RBTREE_CLR_RED

\* up->right = down->left; down->left = up; return down; noted is whether the
\* node that moves up is the sentinel
LeftRotateWith(s, up, down) ==
    Return(Wr(Wr(Note(s, [at |-> "rotation", nil |-> (down = nil_node)]),
                 up, "right", Left(s, down)),
              down, "left", up),
           down)

rbtree_left_rotate(s, up) == LeftRotateWith(s, up, Right(s, up))

\* up->left = down->right; down->right = up; return down
RightRotateWith(s, up, down) ==
    Return(Wr(Wr(Note(s, [at |-> "rotation", nil |-> (down = nil_node)]),
                 up, "left", Right(s, down)),
              down, "right", up),
           down)

rbtree_right_rotate(s, up) == RightRotateWith(s, up, Left(s, up))

\* rt->left = rbtree_left_rotate(rt->left), and the three other such statements
RotateLeftChildLeft(s, rt) == AssignLeft(rbtree_left_rotate(s, Left(s, rt)), rt)
RotateRightChildRight(s, rt) == AssignRight(rbtree_right_rotate(s, Right(s, rt)), rt)

\* mutant of RedBlackBlack: root->color = RED left out
MutRedBlackBlackKeepsRoot(s, rt) ==
    Return(SetLeftColor(SetRightColor(s, rt, RBTREE_CLR_BLK), rt, RBTREE_CLR_BLK), rt)

\* root->color = RED; root->left->color = root->right->color = BLK; return root
RedBlackBlack(s, rt) ==
    Return(SetLeftColor(SetRightColor(Wr(s, rt, "color", RBTREE_CLR_RED),
                                      rt, RBTREE_CLR_BLK),
                        rt, RBTREE_CLR_BLK),
           rt)

\* the same on the root a rotation has just returned
RedBlackBlackReturned(s) == RedBlackBlack(s, s.r)

\* mutant of ColourFlip: the colours are left as they are
MutColourFlipNothing(s, rt) == Return(s, rt)

\* noted after lines 116-119, s being the state before them: the colour rt had,
\* and whether the paths from rt down to the sentinel hold as many BLACK nodes
\* as before
FlipNoted(t, s, rt) ==
    Note(t, [at |-> "flip", was |-> Color(s, rt),
             kept |-> (BlackCounts(t.h, rt, WalkFuel) = BlackCounts(s.h, rt, WalkFuel))])

\* lines 115-120: both children of root are RED
ColourFlip(s, rt) == FlipNoted(RedBlackBlack(s, rt), s, rt)

\* has_red_conflict of rbtree_insert_maintian
InsertConflict(s, rt) ==
    IF Color(s, Left(s, rt)) = RBTREE_CLR_RED /\ has_red_child_node(s, Left(s, rt))
    THEN RBTREE_INSERT_CLT_LEFT
    ELSE IF Color(s, Right(s, rt)) = RBTREE_CLR_RED /\ has_red_child_node(s, Right(s, rt))
    THEN RBTREE_INSERT_CLT_RIGHT
    ELSE RBTREE_INSERT_CLT_NONE

\* mutant of InsertFixLeft: the colours are left as they are after the rotation
MutInsertFixLeftNoRecolour(s, rt) ==
    rbtree_right_rotate(
        IF Color(s, Right(s, Left(s, rt))) = RBTREE_CLR_RED
        THEN RotateLeftChildLeft(s, rt) ELSE s,
        rt)

\* LL / LR: the small left rotation if needed, then the big right rotation
InsertFixLeft(s, rt) ==
    RedBlackBlackReturned(
        rbtree_right_rotate(
            IF Color(s, Right(s, Left(s, rt))) = RBTREE_CLR_RED
            THEN RotateLeftChildLeft(s, rt) ELSE s,
            rt))

\* RR / RL
InsertFixRight(s, rt) ==
    RedBlackBlackReturned(
        rbtree_left_rotate(
            IF Color(s, Left(s, Right(s, rt))) = RBTREE_CLR_RED
            THEN RotateRightChildRight(s, rt) ELSE s,
            rt))

\* mutants of rbtree_insert_maintian: the rotations left out; the colour flip
\* taken when either child (not both) is RED; no maintenance at all
MutInsertMaintainFlipOnly(s, rt) ==
    IF Color(s, Left(s, rt)) = RBTREE_CLR_RED /\ Color(s, Right(s, rt)) = RBTREE_CLR_RED
    THEN RedBlackBlack(s, rt)
    ELSE Return(s, rt)

MutInsertMaintainFlipAny(s, rt) ==
    IF ~has_red_child_node(s, rt) THEN Return(s, rt)
    ELSE IF Color(s, Left(s, rt)) = RBTREE_CLR_RED \/ Color(s, Right(s, rt)) = RBTREE_CLR_RED
    THEN RedBlackBlack(s, rt)
    ELSE Return(s, rt)

MutInsertMaintainNothing(s, rt) == Return(s, rt)

\* lines 110 and 115 read root->left->color and root->right->color before
\* anything is stored: a null child stops the process there
rbtree_insert_maintian(s, rt) ==
    IF s.st # "ok" THEN s
    ELSE IF Left(s, rt) = NullPtr \/ Right(s, rt) = NullPtr THEN Segv(s)
    ELSE IF ~has_red_child_node(s, rt) THEN Return(s, rt)
    ELSE IF Color(s, Left(s, rt)) = RBTREE_CLR_RED /\ Color(s, Right(s, rt)) = RBTREE_CLR_RED
    THEN ColourFlip(s, rt)
    ELSE IF InsertConflict(s, rt) = RBTREE_INSERT_CLT_NONE THEN Return(s, rt)
    ELSE IF InsertConflict(s, rt) = RBTREE_INSERT_CLT_LEFT THEN InsertFixLeft(s, rt)
    ELSE InsertFixRight(s, rt)

\* the parent-child edges of the subtree of rt whose two ends are RED, each as
\* <<parent, child>>
RedRedEdges(h, rt) ==
    {e \in {<<n, h[n].left>> : n \in SeqRange(Walk(h, rt, WalkFuel))}
            \cup {<<n, h[n].right>> : n \in SeqRange(Walk(h, rt, WalkFuel))} :
        h[e[1]].color = RBTREE_CLR_RED /\ h[e[2]].color = RBTREE_CLR_RED}

\* noted when rbtree_insert_maintian(rt) is about to be called, side being
\* the link of rt that line 164 or 166 has just stored: the number of RED-RED
\* edges below rt, whether each has the stored child as an end, and whether
\* the paths from rt down hold equally many BLACK nodes
InsertNoted(s, rt, side) ==
    IF s.st # "ok" THEN s
    ELSE IF s.h[rt][side] = NullPtr THEN s
    ELSE Note(s, [at |-> "insert maintain",
                  edges |-> Cardinality(RedRedEdges(s.h, rt)),
                  touch |-> \A e \in RedRedEdges(s.h, rt) :
                                e[1] = s.h[rt][side] \/ e[2] = s.h[rt][side],
                  bh |-> Cardinality(BlackCounts(s.h, rt, WalkFuel)) = 1])

RECURSIVE __rbtree_insert(_, _, _)
__rbtree_insert(s, rt, key) ==
    IF rt = nil_node THEN rbtree_create_node(s, key)
    ELSE IF Key(s, rt) = key THEN Return(s, rt)
    ELSE IF key < Key(s, rt)
    THEN rbtree_insert_maintian(
             InsertNoted(AssignLeft(__rbtree_insert(s, Left(s, rt), key), rt), rt, "left"),
             rt)
    ELSE rbtree_insert_maintian(
             InsertNoted(AssignRight(__rbtree_insert(s, Right(s, rt), key), rt), rt, "right"),
             rt)

\* tree->root = <returned value>
AssignRoot(s) ==
    IF s.st # "ok" THEN s
    ELSE [s EXCEPT !.root = s.r, !.stored = TRUE, !.nullw = @ \/ s.r = NullPtr]

\* tree->root->color = RBTREE_CLR_BLK
SetRootBlack(s) == Wr(s, s.root, "color", RBTREE_CLR_BLK)

\* mutant of rbtree_insert: tree->root->color = BLK left out
MutInsertNoBlackRoot(s, tree, key) ==
    IF tree = NullPtr THEN s
    ELSE AssignRoot(__rbtree_insert(s, s.root, key))

rbtree_insert(s, tree, key) ==
    IF tree = NullPtr THEN s
    ELSE SetRootBlack(AssignRoot(__rbtree_insert(s, s.root, key)))

\* the while loop of __rbtree_find_predecessor
RECURSIVE PredecessorFrom(_, _)
PredecessorFrom(s, cursor) ==
    IF Right(s, cursor) # nil_node THEN PredecessorFrom(s, Right(s, cursor)) ELSE cursor

__rbtree_find_predecessor(s, node) == PredecessorFrom(s, Left(s, node))

\* root->left->color = root->right->color = BLK; return root
BothChildrenBlackReturned(s) ==
    SetLeftColor(SetRightColor(s, s.r, RBTREE_CLR_BLK), s.r, RBTREE_CLR_BLK)

\* root->color = root->left->color  /  root->color = root->right->color,
\* on the root the big rotation has just returned
CopyLeftColorReturned(s) == Wr(s, s.r, "color", Color(s, Left(s, s.r)))
CopyRightColorReturned(s) == Wr(s, s.r, "color", Color(s, Right(s, s.r)))

\* mutant of EraseNoRedNephew: root->color += BLK left out
MutEraseNoRedNephewNoPushUp(s, rt) ==
    Return(AddRightColor(AddLeftColor(s, rt, 0 - RBTREE_CLR_BLK), rt, 0 - RBTREE_CLR_BLK), rt)

\* mutant of EraseNoRedNephew: root->color += DBL in place of += BLK
MutEraseNoRedNephewAddsTwo(s, rt) ==
    Return(AddColor(AddRightColor(AddLeftColor(s, rt, 0 - RBTREE_CLR_BLK),
                                  rt, 0 - RBTREE_CLR_BLK),
                    rt, RBTREE_CLR_DBL),
           rt)

\* mutant of EraseNoRedNephew: root->left->color -= BLK left out
MutEraseNoRedNephewKeepsLeft(s, rt) ==
    Return(AddColor(AddRightColor(s, rt, 0 - RBTREE_CLR_BLK), rt, RBTREE_CLR_BLK), rt)

\* the sibling is black and has no red child: both children lose one black,
\* the root gains one
EraseNoRedNephew(s, rt) ==
    Return(AddColor(AddRightColor(AddLeftColor(s, rt, 0 - RBTREE_CLR_BLK),
                                  rt, 0 - RBTREE_CLR_BLK),
                    rt, RBTREE_CLR_BLK),
           rt)

\* mutant of NearNephewToFarRight: the small rotation whatever the colour of
\* root->right->left
MutNearNephewAlwaysRotates(s, rt) ==
    SetRightColor(RotateRightChildRight(SetRightColor(s, rt, RBTREE_CLR_RED), rt),
                  rt, RBTREE_CLR_BLK)

\* if (root->right->left->color == RED): sibling red, small right rotation,
\* new sibling black
NearNephewToFarRight(s, rt) ==
    IF Color(s, Left(s, Right(s, rt))) = RBTREE_CLR_RED
    THEN SetRightColor(RotateRightChildRight(SetRightColor(s, rt, RBTREE_CLR_RED), rt),
                       rt, RBTREE_CLR_BLK)
    ELSE s

NearNephewToFarLeft(s, rt) ==
    IF Color(s, Right(s, Left(s, rt))) = RBTREE_CLR_RED
    THEN SetLeftColor(RotateLeftChildLeft(SetLeftColor(s, rt, RBTREE_CLR_RED), rt),
                      rt, RBTREE_CLR_BLK)
    ELSE s

\* mutant of EraseSiblingRight: root->left->color -= BLK left out
MutEraseSiblingRightKeepsDouble(s, rt) ==
    BothChildrenBlackReturned(
        CopyLeftColorReturned(rbtree_left_rotate(NearNephewToFarRight(s, rt), rt)))

\* the double black is the left child, the black sibling is on the right
EraseSiblingRight(s, rt) ==
    BothChildrenBlackReturned(
        CopyLeftColorReturned(
            rbtree_left_rotate(
                AddLeftColor(NearNephewToFarRight(s, rt), rt, 0 - RBTREE_CLR_BLK),
                rt)))

\* mutant of EraseSiblingLeft: root->right->color -= BLK left out
MutEraseSiblingLeftKeepsDouble(s, rt) ==
    BothChildrenBlackReturned(
        CopyRightColorReturned(rbtree_right_rotate(NearNephewToFarLeft(s, rt), rt)))

\* the double black is the right child, the black sibling is on the left
EraseSiblingLeft(s, rt) ==
    BothChildrenBlackReturned(
        CopyRightColorReturned(
            rbtree_right_rotate(
                AddRightColor(NearNephewToFarLeft(s, rt), rt, 0 - RBTREE_CLR_BLK),
                rt)))

RECURSIVE __rbtree_erase_maintain(_, _)

\* nested calls of __rbtree_erase_maintain granted before the call counts as
\* not ending
MaintainFuel == MaxKey + 2

\* a nested call of __rbtree_erase_maintain begins; it has returned, and the
\* colour of the root it returned is noted
Nested(s) == [s EXCEPT !.depth = @ + 1]
Unnested(s) ==
    Note([s EXCEPT !.depth = @ - 1], [at |-> "nested", rootclr |-> Color(s, s.r)])

\* root->right = __rbtree_erase_maintain(root->right); return root
MaintainRightOf(s, top) ==
    Return(AssignRight(Unnested(__rbtree_erase_maintain(Nested(s), Right(s, top))), top),
           top)

\* root->left = __rbtree_erase_maintain(root->left); return root
MaintainLeftOf(s, top) ==
    Return(AssignLeft(Unnested(__rbtree_erase_maintain(Nested(s), Left(s, top))), top),
           top)

\* root->color = BLK on the root the rotation returned, then the nested call
\* on the side the double black went to
AfterRightRotation(s) == MaintainRightOf(Wr(s, s.r, "color", RBTREE_CLR_BLK), s.r)
AfterLeftRotation(s) == MaintainLeftOf(Wr(s, s.r, "color", RBTREE_CLR_BLK), s.r)

\* the sibling of the double black is red; s is the state after root->color = RED
RedSiblingRotate(s, rt) ==
    IF Color(s, Left(s, rt)) = RBTREE_CLR_RED
    THEN AfterRightRotation(rbtree_right_rotate(s, rt))
    ELSE AfterLeftRotation(rbtree_left_rotate(s, rt))

\* mutant of RedSibling: root->color = RED left out
MutRedSiblingKeepsRootColour(s, rt) == RedSiblingRotate(s, rt)

\* root->color = RED, then the rotation and the nested call
RedSibling(s, rt) == RedSiblingRotate(Wr(s, rt, "color", RBTREE_CLR_RED), rt)

\* which of the cases of __rbtree_erase_maintain the node rt is in
MaintainBranch(s, rt) ==
    IF Color(s, Left(s, rt)) # RBTREE_CLR_DBL /\ Color(s, Right(s, rt)) # RBTREE_CLR_DBL
    THEN "none"
    ELSE IF has_red_child_node(s, rt) THEN "red sibling"
    ELSE IF \/ (Color(s, Left(s, rt)) = RBTREE_CLR_DBL /\ ~has_red_child_node(s, Right(s, rt)))
            \/ (Color(s, Right(s, rt)) = RBTREE_CLR_DBL /\ ~has_red_child_node(s, Left(s, rt)))
    THEN "no red nephew"
    ELSE IF Color(s, Left(s, rt)) = RBTREE_CLR_DBL THEN "sibling right"
    ELSE "sibling left"

\* how many of root->left, root->right are DOUBLE_BLACK
DblChildren(s, rt) ==
    (IF Color(s, Left(s, rt)) = RBTREE_CLR_DBL THEN 1 ELSE 0)
    + (IF Color(s, Right(s, rt)) = RBTREE_CLR_DBL THEN 1 ELSE 0)

\* the red child of rt (the sibling of the double black)
RedChild(s, rt) ==
    IF Color(s, Left(s, rt)) = RBTREE_CLR_RED THEN Left(s, rt) ELSE Right(s, rt)

\* both children of n are nodes (not the sentinel) and BLACK
HasTwoBlackNodes(s, n) ==
    /\ Left(s, n) # nil_node /\ Color(s, Left(s, n)) = RBTREE_CLR_BLK
    /\ Right(s, n) # nil_node /\ Color(s, Right(s, n)) = RBTREE_CLR_BLK

\* __rbtree_erase_maintain(rt) is entered: noted are the nesting depth, the
\* number of DOUBLE_BLACK children, the case, and in the red sibling case the
\* colour of rt and what the sibling's children are
MaintainNoted(s, rt) ==
    Note(s, [at |-> "maintain", depth |-> s.depth, dbl |-> DblChildren(s, rt),
             branch |-> MaintainBranch(s, rt)])

RedSiblingNoted(s, rt) ==
    Note(s, [at |-> "red sibling", rootclr |-> Color(s, rt),
             nephews |-> HasTwoBlackNodes(s, RedChild(s, rt))])

\* the sibling of the DOUBLE_BLACK child of rt
Sibling(s, rt) ==
    IF Color(s, Left(s, rt)) = RBTREE_CLR_DBL THEN Right(s, rt) ELSE Left(s, rt)

\* how many of n->left, n->right are RED
RedChildren(s, n) ==
    (IF Color(s, Left(s, n)) = RBTREE_CLR_RED THEN 1 ELSE 0)
    + (IF Color(s, Right(s, n)) = RBTREE_CLR_RED THEN 1 ELSE 0)

\* in the cases of lines 270-311 the sibling is not RED: noted are its colour
\* and the number of its RED children
BlackSiblingNoted(s, rt) ==
    Note(s, [at |-> "black sibling", clr |-> Color(s, Sibling(s, rt)),
             reds |-> RedChildren(s, Sibling(s, rt))])

MaintainEntered(s, rt) ==
    IF MaintainBranch(s, rt) = "red sibling"
    THEN RedSiblingNoted(MaintainNoted(s, rt), rt)
    ELSE IF MaintainBranch(s, rt) = "none"
    THEN MaintainNoted(s, rt)
    ELSE BlackSiblingNoted(MaintainNoted(s, rt), rt)

\* some node below n is DOUBLE_BLACK
DblBelow(s, n) ==
    \E m \in SeqRange(Walk(s.h, n, WalkFuel)) \ {n} : Color(s, m) = RBTREE_CLR_DBL

\* __rbtree_erase_maintain returns s.r: noted are the case it was in, the
\* colour the node had, and where DOUBLE_BLACK is left
MaintainReturned(s, branch, was) ==
    Note(s, [at |-> "return", branch |-> branch, was |-> was,
             rootdbl |-> Color(s, s.r) = RBTREE_CLR_DBL,
             below |-> DblBelow(s, s.r),
             nil |-> Color(s, nil_node) = RBTREE_CLR_DBL])

\* the cases of __rbtree_erase_maintain
MaintainBody(s, rt) ==
    IF Color(s, Left(s, rt)) # RBTREE_CLR_DBL /\ Color(s, Right(s, rt)) # RBTREE_CLR_DBL
    THEN Return(s, rt)
    ELSE IF has_red_child_node(s, rt)
    THEN RedSibling(s, rt)
    ELSE IF \/ (Color(s, Left(s, rt)) = RBTREE_CLR_DBL /\ ~has_red_child_node(s, Right(s, rt)))
            \/ (Color(s, Right(s, rt)) = RBTREE_CLR_DBL /\ ~has_red_child_node(s, Left(s, rt)))
    THEN EraseNoRedNephew(s, rt)
    ELSE IF Color(s, Left(s, rt)) = RBTREE_CLR_DBL
    THEN EraseSiblingRight(s, rt)
    ELSE EraseSiblingLeft(s, rt)

__rbtree_erase_maintain(s, rt) ==
    IF s.st # "ok" THEN s
    ELSE IF s.depth > MaintainFuel THEN [s EXCEPT !.st = "hung"]
    ELSE MaintainReturned(MaintainBody(MaintainEntered(s, rt), rt),
                          MaintainBranch(s, rt), Color(s, rt))

\* the number of children of rt other than the sentinel
Degree(s, rt) ==
    (IF Left(s, rt) # nil_node THEN 1 ELSE 0) + (IF Right(s, rt) # nil_node THEN 1 ELSE 0)

\* noted once line 339 has added the colour, s being the state before it: the
\* degree and colour of the node about to be freed, and what child was and is
UnlinkNoted(t, s, rt, child) ==
    Note(t, [at |-> "unlink", kids |-> Degree(s, rt), freed |-> Color(s, rt),
             nil |-> (child = nil_node), was |-> Color(s, child),
             leaf |-> (Degree(s, child) = 0), now |-> Color(t, child)])

\* child->color += root->color; SAFE_DELETE_NODE(root); return child
UnlinkTo(s, rt, child) ==
    Return(SAFE_DELETE_NODE(UnlinkNoted(Wr(s, child, "color", Color(s, child) + Color(s, rt)),
                                        s, rt, child),
                            rt),
           child)

\* mutant of EraseUnlink: the child is always taken from root->right
MutEraseUnlinkRightOnly(s, rt) == UnlinkTo(s, rt, Right(s, rt))

\* the degree 0 / degree 1 branch of __rbtree_erase
EraseUnlink(s, rt) ==
    UnlinkTo(s, rt, IF Left(s, rt) # nil_node THEN Left(s, rt) ELSE Right(s, rt))

RECURSIVE __rbtree_erase(_, _, _)

\* mutant of EraseByPredecessor: the predecessor is erased from root->right
MutEraseByPredecessorWrongSide(s, rt, prev_node) ==
    __rbtree_erase_maintain(
        AssignRight(__rbtree_erase(Wr(s, rt, "key", Key(s, prev_node)),
                                   Right(s, rt), Key(s, prev_node)),
                    rt),
        rt)

\* the degree 2 branch: root->key = prev_node->key;
\* root->left = __rbtree_erase(root->left, prev_node->key); then the maintenance
EraseByPredecessor(s, rt, prev_node) ==
    __rbtree_erase_maintain(
        AssignLeft(__rbtree_erase(Wr(s, rt, "key", Key(s, prev_node)),
                                  Left(s, rt), Key(s, prev_node)),
                   rt),
        rt)

\* mutant of __rbtree_erase: the test  key > root->key  left out, so that a
\* larger key counts as found
MutEraseNoGreaterTest(s, rt, key) ==
    IF rt = nil_node THEN Return(s, nil_node)
    ELSE IF key < Key(s, rt)
    THEN __rbtree_erase_maintain(AssignLeft(__rbtree_erase(s, Left(s, rt), key), rt), rt)
    ELSE IF Left(s, rt) = nil_node \/ Right(s, rt) = nil_node
    THEN EraseUnlink(s, rt)
    ELSE EraseByPredecessor(s, rt, __rbtree_find_predecessor(s, rt))

__rbtree_erase(s, rt, key) ==
    IF rt = nil_node THEN Return(s, nil_node)
    ELSE IF key < Key(s, rt)
    THEN __rbtree_erase_maintain(AssignLeft(__rbtree_erase(s, Left(s, rt), key), rt), rt)
    ELSE IF key > Key(s, rt)
    THEN __rbtree_erase_maintain(AssignRight(__rbtree_erase(s, Right(s, rt), key), rt), rt)
    ELSE IF Left(s, rt) = nil_node \/ Right(s, rt) = nil_node
    THEN EraseUnlink(s, rt)
    ELSE EraseByPredecessor(s, rt, __rbtree_find_predecessor(s, rt))

\* mutant of rbtree_erase: tree->root->color = BLK left out
MutEraseNoBlackRoot(s, tree, key) == AssignRoot(__rbtree_erase(s, s.root, key))

\* the colour of tree->root before line 371 makes it BLACK is noted
RootNoted(s) == Note(s, [at |-> "root", clr |-> Color(s, s.root)])

rbtree_erase(s, tree, key) ==
    IF tree = NullPtr THEN s
    ELSE SetRootBlack(RootNoted(AssignRoot(__rbtree_erase(s, s.root, key))))

\* __rbtree_destroy: left subtree, right subtree, then the node itself
RECURSIVE __rbtree_destroy(_, _)

DestroyRightOf(s, rt) == __rbtree_destroy(s, Right(s, rt))

__rbtree_destroy(s, rt) ==
    IF rt = nil_node THEN s
    ELSE SAFE_DELETE_NODE(DestroyRightOf(__rbtree_destroy(s, Left(s, rt)), rt), rt)

\* tree->root is left as it was: it dangles once the nodes are deleted
rbtree_destroy(s, tree) ==
    IF tree = NullPtr THEN s
    ELSE __rbtree_destroy(s, s.root)

\* __inorder_traversal: left, self, right
RECURSIVE InorderFrom(_, _, _)
InorderFrom(h, n, fuel) ==
    IF n = nil_node \/ fuel = 0 THEN <<>>
    ELSE InorderFrom(h, h[n].left, fuel - 1) \o <<h[n].key>> \o InorderFrom(h, h[n].right, fuel - 1)

\* mutant of inorder_traversal: the test of the handle left out, so that
\* tree->root is read through a null handle
MutTraversalNoNullCheck(s, tree) ==
    IF tree = NullPtr THEN Segv(s)
    ELSE Return([s EXCEPT !.out = @ \o InorderFrom(s.h, s.root, WalkFuel)], 0)

\* the keys are appended to the caller's vector; -1 for a null handle
inorder_traversal(s, tree) ==
    IF tree = NullPtr THEN Return(s, 0 - 1)
    ELSE Return([s EXCEPT !.out = @ \o InorderFrom(s.h, s.root, WalkFuel)], 0)

\* ------------------------------------------------- addresses up to renaming
\* The program never orders, prints or hashes an address: it only follows
\* pointers and compares them with nil_node.  Two heaps that differ by a
\* renaming of the allocated cells are therefore the same program state, and
\* the value `new` returns is any free address.  When a call has returned, the
\* allocated cells are named by their rank in a pre-order walk from tree->root,
\* which keeps one representative of each class.  What a claim says about
\* identity (a cell kept, allocated, freed) is observed before the renaming
\* and stored in last.

\* the cells reachable from the root are exactly the allocated ones, once each
IsTreeOfLive(s) ==
    LET order == Walk(s.h, s.root, WalkFuel)
    IN  /\ Len(order) = Cardinality(SeqRange(order))
        /\ SeqRange(order) = s.live

Canon(s) ==
    IF s.st = "segv" THEN s
    ELSE IF ~IsTreeOfLive(s) THEN s
    ELSE
      LET order == Walk(s.h, s.root, WalkFuel)
          rank(a) == IF a = nil_node THEN nil_node
                     ELSE CHOOSE i \in DOMAIN order : order[i] = a
          cell(i) == [s.h[order[i]] EXCEPT !.left = rank(@), !.right = rank(@)]
      IN  [s EXCEPT !.h = [a \in DOMAIN s.h |->
                              IF a = nil_node THEN s.h[nil_node]
                              ELSE IF a \in DOMAIN order THEN cell(a)
                              ELSE FreeCell],
                    !.live = DOMAIN order,
                    !.root = rank(s.root)]

\* ------------------------------------------------------------ the actions
\* main: t_rbtree tree = {0}; tree.root = nil_node, after init_nil_node ran
RInit ==
    /\ heap = [a \in {nil_node} \cup NodeIds |-> IF a = nil_node THEN init_nil_node ELSE FreeCell]
    /\ live = {}
    /\ root = nil_node
    /\ present = {}
    /\ last = [op |-> "init", key |-> 0, tree |-> TreeHandle, had |-> FALSE,
               nilw |-> {}, same |-> TRUE, st |-> "ok", new |-> "ok",
               stored |-> FALSE, nullw |-> FALSE, clr |-> {}, ev |-> {},
               ret |-> nil_node, in |-> <<>>, out |-> <<>>]

\* what the call that ended in machine state s did, seen from the state before
Observed(op, key, tree, s) ==
    [op |-> op, key |-> key, tree |-> tree, had |-> key \in present,
     nilw |-> s.nilw,
     same |-> (s.h = heap /\ s.live = live /\ s.root = root),
     st |-> s.st, new |-> s.new, stored |-> s.stored, nullw |-> s.nullw,
     clr |-> s.clr, ev |-> s.ev, ret |-> s.r, in |-> s.in, out |-> s.out]

\* the call has ended in machine state s, of which c is the renaming; of a
\* process that stopped nothing is left but the record of what it did
Returned(op, key, tree, s, c) ==
    /\ heap' = IF s.st = "segv" THEN heap ELSE c.h
    /\ live' = IF s.st = "segv" THEN live ELSE c.live
    /\ root' = IF s.st = "segv" THEN root ELSE c.root
    /\ last' = Observed(op, key, tree, s)

Commit(op, key, tree, s) == Returned(op, key, tree, s, Canon(s))

\* main makes calls while the process runs and the tree is not destroyed
Running ==
    /\ last.st \in {"ok", "bad_alloc"}
    /\ ~(last.op = "destroy" /\ last.tree # NullPtr)

\* rbtree_insert(&tree, key)
Insert(key) ==
    /\ Running
    /\ Commit("insert", key, TreeHandle,
              rbtree_insert(Machine(heap, live, root), TreeHandle, key))
    /\ present' = present \cup {key}

\* rbtree_erase(&tree, key)
Erase(key) ==
    /\ Running
    /\ Commit("erase", key, TreeHandle,
              rbtree_erase(Machine(heap, live, root), TreeHandle, key))
    /\ present' = present \ {key}

\* the key is in the tree after an insert that ran to its end
InsertEnded(key, tree, s) ==
    /\ Commit("insert", key, tree, s)
    /\ present' = IF s.st = "ok" /\ tree # NullPtr THEN present \cup {key} ELSE present

\* rbtree_insert(&tree, key) when memory is exhausted
InsertNoMemory(key, how) ==
    /\ Running
    /\ InsertEnded(key, TreeHandle,
                   rbtree_insert(WithNew(Machine(heap, live, root), how), TreeHandle, key))

\* rbtree_insert(nullptr, key)
InsertNullHandle(key) ==
    /\ Running
    /\ InsertEnded(key, NullPtr, rbtree_insert(Machine(heap, live, root), NullPtr, key))

\* rbtree_erase(nullptr, key)
EraseNullHandle(key) ==
    /\ Running
    /\ Commit("erase", key, NullPtr, rbtree_erase(Machine(heap, live, root), NullPtr, key))
    /\ UNCHANGED present

\* rbtree_destroy(tree)
Destroy(tree) ==
    /\ Running
    /\ Commit("destroy", 0, tree, rbtree_destroy(Machine(heap, live, root), tree))
    /\ present' = IF tree = NullPtr THEN present ELSE {}

\* vectors handed to inorder_traversal: empty as in main, or already filled
Vectors == {<<>>, <<FaultMaxKey>>}

\* inorder_traversal(tree, result)
Traverse(tree, result) ==
    /\ Running
    /\ Commit("traverse", 0, tree,
              inorder_traversal(WithResult(Machine(heap, live, root), result), tree))
    /\ UNCHANGED present

\* ======================================================================
RBTREE_NODE_CLR_RED == 0
RBTREE_NODE_CLR_BCK == 1

\* the address of main's local sentinel:  t_rbtree_node nil = {0};
\* nil.entry.color = RBTREE_NODE_CLR_BCK;  (parent, left, right stay null)
iter_nil == 0

IterNilCell ==
    [color |-> RBTREE_NODE_CLR_BCK, parent |-> NullPtr, left |-> NullPtr,
     right |-> NullPtr, key |-> 0]

\* a cell new has not handed out yet
IterFreeCell ==
    [color |-> 0, parent |-> NullPtr, left |-> NullPtr, right |-> NullPtr, key |-> 0]

\* the machine state of a call: p.h heap, p.root tree->root, p.count cells
\* handed out, p.st "ok" / "segv" (a null pointer was dereferenced) / "hung"
\* (a loop did not end within LoopFuel rounds), p.r the returned value, p.ev
\* what the calls of rbtree_flip_color did
IterMachine(h, r, c) ==
    [h |-> h, root |-> r, count |-> c, st |-> "ok", r |-> 0, ev |-> {}]

\* rounds granted to a loop of the program
LoopFuel == 2 * IterMaxKey + 6

\* ptr->entry.f (or ptr->key); total, the null check is made by Deref
Fld(p, ptr, f) == IF ptr = NullPtr THEN NullPtr ELSE p.h[ptr][f]

\* the statement q, which dereferences the pointers ptrs, run in state p
Deref(p, ptrs, q) ==
    IF p.st # "ok" THEN p
    ELSE IF NullPtr \in ptrs THEN [p EXCEPT !.st = "segv"]
    ELSE q

\* ptr->entry.f = v
IWr(p, ptr, f, v) == Deref(p, {ptr}, [p EXCEPT !.h[ptr][f] = v])

IReturn(p, v) == IF p.st # "ok" THEN p ELSE [p EXCEPT !.r = v]

\* if (tree->nil != y->entry.left) y->entry.left->entry.parent = x;
ReparentLeftOf(p, y, x) ==
    Deref(p, {y},
          IF iter_nil # Fld(p, y, "left") THEN IWr(p, Fld(p, y, "left"), "parent", x) ELSE p)

\* if (tree->nil != x->entry.right) x->entry.right->entry.parent = y;
ReparentRightOf(p, x, y) ==
    Deref(p, {x},
          IF iter_nil # Fld(p, x, "right") THEN IWr(p, Fld(p, x, "right"), "parent", y) ELSE p)

\* the three-way link of the node that moved up into the place of old
ReplaceInParent(p, old, new) ==
    Deref(p, {old},
          IF iter_nil = Fld(p, old, "parent") THEN [p EXCEPT !.root = new]
          ELSE Deref(p, {Fld(p, old, "parent")},
                     IF old = Fld(p, Fld(p, old, "parent"), "left")
                     THEN IWr(p, Fld(p, old, "parent"), "left", new)
                     ELSE IWr(p, Fld(p, old, "parent"), "right", new)))

\* rbtree_left_rotate once  y = x->entry.right  is read
IterLeftRotateWith(p, x, y) ==
    IWr(IWr(ReplaceInParent(
                IWr(ReparentLeftOf(
                        Deref(p, {x, y}, IWr(p, x, "right", Fld(p, y, "left"))),
                        y, x),
                    y, "parent", Fld(p, x, "parent")),
                x, y),
            y, "left", x),
        x, "parent", y)

iter_rbtree_left_rotate(p, x) ==
    IF p.st # "ok" \/ iter_nil = x THEN p
    ELSE Deref(p, {x}, IterLeftRotateWith(p, x, Fld(p, x, "right")))

\* rbtree_right_rotate once  x = y->entry.left  is read
IterRightRotateWith(p, y, x) ==
    IWr(IWr(ReplaceInParent(
                IWr(ReparentRightOf(
                        Deref(p, {y, x}, IWr(p, y, "left", Fld(p, x, "right"))),
                        x, y),
                    x, "parent", Fld(p, y, "parent")),
                y, x),
            x, "right", y),
        y, "parent", x)

iter_rbtree_right_rotate(p, y) ==
    IF p.st # "ok" \/ iter_nil = y THEN p
    ELSE Deref(p, {y}, IterRightRotateWith(p, y, Fld(p, y, "left")))

\* rbtree_flip_color(node) has run from state p to state t: noted are the
\* colours node and its two children have now, and whether every parent, left
\* and right link is as it was
IterFlipNoted(t, p, node) ==
    IF t.st # "ok" THEN t
    ELSE [t EXCEPT !.ev = @ \cup
            {[node |-> t.h[node].color,
              left |-> t.h[p.h[node].left].color,
              right |-> t.h[p.h[node].right].color,
              links |-> \A a \in DOMAIN p.h :
                           /\ t.h[a].parent = p.h[a].parent
                           /\ t.h[a].left = p.h[a].left
                           /\ t.h[a].right = p.h[a].right]}]

\* node->entry.left->entry.color = BCK; node->entry.right->entry.color = RED;
\* node->entry.color = RED
rbtree_flip_color(p, node) ==
    IF p.st # "ok" \/ node = NullPtr THEN p
    ELSE IterFlipNoted(
             IWr(IWr(IWr(p, Fld(p, node, "left"), "color", RBTREE_NODE_CLR_BCK),
                     Fld(p, node, "right"), "color", RBTREE_NODE_CLR_RED),
                 node, "color", RBTREE_NODE_CLR_RED),
             p, node)

RECURSIVE AdjustLoop(_, _, _)

\* parent = cursor->parent; grand_node = parent->parent;
\* rbtree_right_rotate(tree, grand_node); rbtree_flip_color(parent); next round
LeftBranchFinish(p, cursor, fuel) ==
    Deref(p, {cursor, Fld(p, cursor, "parent")},
          AdjustLoop(rbtree_flip_color(
                         iter_rbtree_right_rotate(p, Fld(p, Fld(p, cursor, "parent"), "parent")),
                         Fld(p, cursor, "parent")),
                     cursor, fuel - 1))

RightBranchFinish(p, cursor, fuel) ==
    Deref(p, {cursor, Fld(p, cursor, "parent")},
          AdjustLoop(rbtree_flip_color(
                         iter_rbtree_left_rotate(p, Fld(p, Fld(p, cursor, "parent"), "parent")),
                         Fld(p, cursor, "parent")),
                     cursor, fuel - 1))

\* the parent is the left child of grand_node
LeftBranch(p, cursor, grand_node, fuel) ==
    Deref(p, {grand_node, Fld(p, grand_node, "right")},
          IF Fld(p, Fld(p, grand_node, "right"), "color") = RBTREE_NODE_CLR_RED
          THEN AdjustLoop(rbtree_flip_color(p, grand_node), grand_node, fuel - 1)
          ELSE IF cursor = Fld(p, Fld(p, cursor, "parent"), "right")
          THEN LeftBranchFinish(iter_rbtree_left_rotate(p, Fld(p, cursor, "parent")),
                                Fld(p, cursor, "parent"), fuel)
          ELSE LeftBranchFinish(p, cursor, fuel))

\* the parent is the right child of grand_node; the uncle is read from
\* grand_node->entry.right here too
RightBranch(p, cursor, grand_node, fuel) ==
    Deref(p, {grand_node, Fld(p, grand_node, "right")},
          IF Fld(p, Fld(p, grand_node, "right"), "color") = RBTREE_NODE_CLR_RED
          THEN AdjustLoop(rbtree_flip_color(p, grand_node), grand_node, fuel - 1)
          ELSE IF cursor = Fld(p, Fld(p, cursor, "parent"), "left")
          THEN RightBranchFinish(iter_rbtree_right_rotate(p, Fld(p, cursor, "parent")),
                                 Fld(p, cursor, "parent"), fuel)
          ELSE RightBranchFinish(p, cursor, fuel))

\* one round of  while (cursor->entry.parent->entry.color == RED)
AdjustLoop(p, cursor, fuel) ==
    IF p.st # "ok" THEN p
    ELSE IF fuel = 0 THEN [p EXCEPT !.st = "hung"]
    ELSE Deref(p, {cursor, Fld(p, cursor, "parent")},
           IF Fld(p, Fld(p, cursor, "parent"), "color") # RBTREE_NODE_CLR_RED THEN p
           ELSE Deref(p, {Fld(p, Fld(p, cursor, "parent"), "parent")},
                  IF Fld(p, cursor, "parent")
                       = Fld(p, Fld(p, Fld(p, cursor, "parent"), "parent"), "left")
                  THEN LeftBranch(p, cursor, Fld(p, Fld(p, cursor, "parent"), "parent"), fuel)
                  ELSE RightBranch(p, cursor, Fld(p, Fld(p, cursor, "parent"), "parent"), fuel)))

\* tree->root->entry.color = RBTREE_NODE_CLR_BCK
IterSetRootBlack(p) == IWr(p, p.root, "color", RBTREE_NODE_CLR_BCK)

rbtree_insert_adjustment(p, insertion) ==
    IF p.st # "ok" \/ iter_nil = insertion THEN p
    ELSE IterSetRootBlack(AdjustLoop(p, insertion, LoopFuel))

\* rbtree_create_node: new, then key, left, right
iter_rbtree_create_node(p, key) ==
    IReturn(IWr(IWr(IWr([p EXCEPT !.count = @ + 1],
                        p.count + 1, "key", key),
                    p.count + 1, "right", iter_nil),
                p.count + 1, "left", iter_nil),
            p.count + 1)

\* if (cursor_parent == tree->nil) tree->root = new_node; else the child link
LinkNewNode(p, new_node, cursor_parent, key) ==
    IF cursor_parent = iter_nil THEN [p EXCEPT !.root = new_node]
    ELSE IF key < Fld(p, cursor_parent, "key") THEN IWr(p, cursor_parent, "left", new_node)
    ELSE IWr(p, cursor_parent, "right", new_node)

\* rbtree_insert from new_node->entry.color = RED on
AttachAndAdjust(p, new_node, cursor_parent, key) ==
    IReturn(rbtree_insert_adjustment(
                LinkNewNode(IWr(IWr(p, new_node, "color", RBTREE_NODE_CLR_RED),
                                new_node, "parent", cursor_parent),
                            new_node, cursor_parent, key),
                new_node),
            0)

AttachCreated(p, cursor_parent, key) == AttachAndAdjust(p, p.r, cursor_parent, key)

\* the descent  while (cursor != tree->nil)  of rbtree_insert, then the rest
RECURSIVE InsertDescend(_, _, _, _, _)
InsertDescend(p, cursor, cursor_parent, key, fuel) ==
    IF fuel = 0 THEN [p EXCEPT !.st = "hung"]
    ELSE IF cursor = iter_nil
    THEN AttachCreated(iter_rbtree_create_node(p, key), cursor_parent, key)
    ELSE Deref(p, {cursor},
           IF key < Fld(p, cursor, "key")
           THEN InsertDescend(p, Fld(p, cursor, "left"), cursor, key, fuel - 1)
           ELSE IF key > Fld(p, cursor, "key")
           THEN InsertDescend(p, Fld(p, cursor, "right"), cursor, key, fuel - 1)
           ELSE IReturn(p, 0))

iter_rbtree_insert(p, key) == InsertDescend(p, p.root, iter_nil, key, LoopFuel)

\* the loop  while (cursor)  of rbtree_search: the node found, or nullptr
RECURSIVE SearchFrom(_, _, _, _)
SearchFrom(p, cursor, key, fuel) ==
    IF cursor = NullPtr \/ fuel = 0 THEN NullPtr
    ELSE IF key < Fld(p, cursor, "key") THEN SearchFrom(p, Fld(p, cursor, "left"), key, fuel - 1)
    ELSE IF key > Fld(p, cursor, "key") THEN SearchFrom(p, Fld(p, cursor, "right"), key, fuel - 1)
    ELSE cursor

rbtree_search(p, key) ==
    IF iter_nil = p.root THEN NullPtr ELSE SearchFrom(p, p.root, key, LoopFuel)

\* the numbers of BLACK nodes met on the paths from n down to the sentinel of
\* the parent-pointer tree
RECURSIVE IterBlackCounts(_, _, _)
IterBlackCounts(h, n, fuel) ==
    IF n = iter_nil \/ n = NullPtr \/ fuel = 0 THEN {0}
    ELSE {(IF h[n].color = RBTREE_NODE_CLR_BCK THEN 1 ELSE 0) + c :
             c \in IterBlackCounts(h, h[n].left, fuel - 1)
                    \cup IterBlackCounts(h, h[n].right, fuel - 1)}

\* main of red_black_tree.cpp up to the first rbtree_insert
IterInit ==
    /\ iheap = [a \in {iter_nil} \cup IterNodeIds |->
                  IF a = iter_nil THEN IterNilCell ELSE IterFreeCell]
    /\ iroot = iter_nil
    /\ icount = 0
    /\ ikeys = {}
    /\ istatus = "ok"
    /\ ilast = [op |-> "init", key |-> 0, ret |-> 0, ev |-> {}]

IterReturned(p, key) ==
    /\ iheap' = p.h
    /\ iroot' = p.root
    /\ icount' = p.count
    /\ istatus' = p.st
    /\ ilast' = [op |-> "insert", key |-> key, ret |-> p.r, ev |-> p.ev]

\* rbtree_insert(&tree, key)
IterInsert(key) ==
    /\ istatus = "ok"
    /\ IterReturned(iter_rbtree_insert(IterMachine(iheap, iroot, icount), key), key)
    /\ ikeys' = ikeys \cup {key}

\* rbtree_search(&tree, key); ret is the pointer returned
IterSearch(key) ==
    /\ istatus = "ok"
    /\ ilast' = [op |-> "search", key |-> key,
                 ret |-> rbtree_search(IterMachine(iheap, iroot, icount), key), ev |-> {}]
    /\ UNCHANGED <<iheap, iroot, icount, ikeys, istatus>>

\* ======================================================================
\* Part III: the plain binary search tree of binarySearchTree.cpp.  A missing
\* child is nullptr; nothing is ever deleted; new is taken to succeed.

\* a cell new has not handed out yet
BstFreeCell == [left |-> NullPtr, right |-> NullPtr, key |-> 0]

\* the machine state of a call: p.h heap, p.root tree->root, p.count cells
\* handed out, p.r the returned value
BstMachine(h, r, c) == [h |-> h, root |-> r, count |-> c, r |-> 0]

BstReturn(p, v) == [p EXCEPT !.r = v]

\* node->key = key; node->entry.left = node->entry.right = nullptr; return node
create_bstree_node(p, key) ==
    BstReturn([p EXCEPT !.count = @ + 1,
                        !.h[p.count + 1] = [left |-> NullPtr, right |-> NullPtr, key |-> key]],
              p.count + 1)

\* tree->root = node; return 0
BstRootCreated(p) == BstReturn([p EXCEPT !.root = p.r], 0)

\* mutant of BstLink: the new node always becomes the left child
MutBstLinkAlwaysLeft(p, cursor_parent, node, key) ==
    BstReturn([p EXCEPT !.h[cursor_parent].left = node], 0)

\* if (key < cursor_parent->key) left = node; else right = node; return 0
BstLink(p, cursor_parent, node, key) ==
    IF key < p.h[cursor_parent].key
    THEN BstReturn([p EXCEPT !.h[cursor_parent].left = node], 0)
    ELSE BstReturn([p EXCEPT !.h[cursor_parent].right = node], 0)

BstLinkCreated(p, cursor_parent, key) == BstLink(p, cursor_parent, p.r, key)

\* the loop  while (cursor)  of insert_node_to_bstree, then the rest
RECURSIVE BstDescend(_, _, _, _)
BstDescend(p, cursor, cursor_parent, key) ==
    IF cursor = NullPtr
    THEN BstLinkCreated(create_bstree_node(p, key), cursor_parent, key)
    ELSE IF key < p.h[cursor].key THEN BstDescend(p, p.h[cursor].left, cursor, key)
    ELSE IF key > p.h[cursor].key THEN BstDescend(p, p.h[cursor].right, cursor, key)
    ELSE BstReturn(p, 1)

insert_node_to_bstree(p, tree, key) ==
    IF tree = NullPtr THEN BstReturn(p, 0 - 1)
    ELSE IF p.root = NullPtr THEN BstRootCreated(create_bstree_node(p, key))
    ELSE BstDescend(p, p.root, NullPtr, key)

\* the keys inorder_traversal(root, result) appends: left, self, right
RECURSIVE BstInorderFrom(_, _, _)
BstInorderFrom(h, n, fuel) ==
    IF n = NullPtr \/ fuel = 0 THEN <<>>
    ELSE BstInorderFrom(h, h[n].left, fuel - 1) \o <<h[n].key>>
         \o BstInorderFrom(h, h[n].right, fuel - 1)

\* deeper than any tree of the cells there are
BstWalkFuel == BstMaxKey + 3

\* inorder_traversal of binarySearchTree.cpp: the value returned and the
\* vector filled from empty
bst_inorder_traversal(h, n) ==
    [ret |-> IF n = NullPtr THEN 0 - 1 ELSE 0, out |-> BstInorderFrom(h, n, BstWalkFuel)]

\* main: t_bstree tree = {0};
BstInit ==
    /\ bheap = [a \in BstNodeIds |-> BstFreeCell]
    /\ broot = NullPtr
    /\ bcount = 0
    /\ bkeys = {}
    /\ blast = [op |-> "init", key |-> 0, ret |-> 0, had |-> FALSE, same |-> TRUE, added |-> 0]

BstReturned(p, key) ==
    /\ bheap' = p.h
    /\ broot' = p.root
    /\ bcount' = p.count
    /\ blast' = [op |-> "insert", key |-> key, ret |-> p.r, had |-> key \in bkeys,
                 same |-> (p.h = bheap /\ p.root = broot /\ p.count = bcount),
                 added |-> p.count - bcount]

\* insert_node_to_bstree(&tree, key)
BstInsert(key) ==
    /\ BstReturned(insert_node_to_bstree(BstMachine(bheap, broot, bcount), TreeHandle, key), key)
    /\ bkeys' = bkeys \cup {key}

\* ======================================================================
vars ==
    <<heap, live, root, present, last, iheap, iroot, icount, ikeys, istatus, ilast,
      bheap, broot, bcount, bkeys, blast>>

Init == RInit /\ IterInit /\ BstInit

\* the recursive tree
Next ==
    \/ \E key \in Keys : Insert(key) /\ UNCHANGED <<ivars, bvars>>
    \/ \E key \in Keys : Erase(key) /\ UNCHANGED <<ivars, bvars>>

Spec == Init /\ [][Next]_vars

\* the recursive tree with exhausted memory and with null handles
FaultNext ==
    \/ \E key \in FaultKeys : Insert(key) /\ UNCHANGED <<ivars, bvars>>
    \/ \E key \in FaultKeys : Erase(key) /\ UNCHANGED <<ivars, bvars>>
    \/ \E key \in FaultKeys : \E how \in {"throw", "null"} :
          InsertNoMemory(key, how) /\ UNCHANGED <<ivars, bvars>>
    \/ \E key \in FaultKeys : InsertNullHandle(key) /\ UNCHANGED <<ivars, bvars>>
    \/ \E key \in FaultKeys : EraseNullHandle(key) /\ UNCHANGED <<ivars, bvars>>
    \/ \E tree \in {TreeHandle, NullPtr} : Destroy(tree) /\ UNCHANGED <<ivars, bvars>>
    \/ \E tree \in {TreeHandle, NullPtr} : \E result \in Vectors :
          Traverse(tree, result) /\ UNCHANGED <<ivars, bvars>>

FaultSpec == Init /\ [][FaultNext]_vars

\* the parent-pointer tree
IterNext ==
    \/ \E key \in IterKeys : IterInsert(key) /\ UNCHANGED <<rvars, bvars>>
    \/ \E key \in IterKeys : IterSearch(key) /\ UNCHANGED <<rvars, bvars>>

IterSpec == Init /\ [][IterNext]_vars

\* the plain binary search tree
BstNext ==
    \E key \in BstKeys : BstInsert(key) /\ UNCHANGED <<rvars, ivars>>

BstSpec == Init /\ [][BstNext]_vars

\* ------------------------------------------------- what is read off a tree
\* the cells reachable from tree->root
Reachable == SeqRange(Walk(heap, root, WalkFuel))

\* the vector inorder_traversal(&tree, result) fills from empty
Traversed == inorder_traversal(Machine(heap, live, root), TreeHandle).out

\* nodes on the longest path from n down to a leaf
RECURSIVE HeightFrom(_, _, _)
HeightFrom(h, n, fuel) ==
    IF n = nil_node \/ fuel = 0 THEN 0
    ELSE LET l == HeightFrom(h, h[n].left, fuel - 1)
             r == HeightFrom(h, h[n].right, fuel - 1)
         IN  1 + (IF l >= r THEN l ELSE r)

Height == HeightFrom(heap, root, WalkFuel)

Pow2(e) == 2 ^ e

\* ---------------------------------------------------------------- claims

\* C1: after every rbtree_insert / rbtree_erase the root is BLACK and no RED
\* node reachable from the root has a RED child.
C1_RootBlackNoRedRed ==
    /\ heap[root].color = RBTREE_CLR_BLK
    /\ \A n \in Reachable :
          heap[n].color = RBTREE_CLR_RED =>
             /\ heap[heap[n].left].color # RBTREE_CLR_RED
             /\ heap[heap[n].right].color # RBTREE_CLR_RED

\* a RED node with two real BLACK children, left by an erase
C1_Witness ==
    /\ last.op = "erase" /\ last.had
    /\ \E n \in Reachable :
          /\ heap[n].color = RBTREE_CLR_RED
          /\ heap[n].left # nil_node /\ heap[n].right # nil_node

\* C2: after every call, for every node reachable from the root, all paths
\* from that node down to the sentinel hold the same number of BLACK nodes.
C2_EqualBlackCounts ==
    \A n \in Reachable : Cardinality(BlackCounts(heap, n, WalkFuel)) = 1

\* an erase that made the sentinel DOUBLE_BLACK and left six nodes, two
\* BLACK nodes on every path
C2_Witness ==
    /\ last.op = "erase" /\ last.had
    /\ \E c \in last.nilw : c.color = RBTREE_CLR_DBL
    /\ Cardinality(live) >= 6
    /\ BlackCounts(heap, root, WalkFuel) = {2}

\* C3: inorder_traversal yields exactly the keys inserted and not erased
\* since, each once, strictly increasing, and there are as many nodes as keys.
C3_InorderIsPresentSorted ==
    LET q == Traversed
    IN  /\ SeqRange(q) = present
        /\ Len(q) = Cardinality(present)
        /\ \A i \in DOMAIN q : \A j \in DOMAIN q : i < j => q[i] < q[j]
        /\ Cardinality(live) = Cardinality(present)
        /\ Reachable = live

\* an erase of a node with two children (its key was overwritten by the
\* predecessor's) that left five keys
C3_Witness ==
    /\ last.op = "erase" /\ last.had
    /\ Cardinality(present) = 5
    /\ \E n \in Reachable :
          /\ heap[n].left # nil_node /\ heap[n].right # nil_node
          /\ last.key > heap[n].key
          /\ \A m \in SeqRange(Walk(heap, heap[n].right, WalkFuel)) : last.key < heap[m].key

\* C4: when rbtree_insert or rbtree_erase has returned, every node reachable
\* from the root is RED or BLACK, never DOUBLE_BLACK.
C4_NoDoubleBlackAtReturn ==
    \A n \in Reachable \cup {root} :
        heap[n].color \in {RBTREE_CLR_RED, RBTREE_CLR_BLK}

\* an erase during which the sentinel was DOUBLE_BLACK, with nodes left
C4_Witness ==
    /\ last.op = "erase"
    /\ \E c \in last.nilw : c.color = RBTREE_CLR_DBL
    /\ Cardinality(live) >= 3

\* C5: rbtree_insert of a key already present leaves every cell, every link,
\* every colour, the set of allocated cells and tree->root as they were.
C5_DuplicateInsertChangesNothing ==
    (last.op = "insert" /\ last.had) => last.same

\* a duplicate insert below a root that has a RED child
C5_Witness ==
    /\ last.op = "insert" /\ last.had
    /\ heap[root].key # last.key
    /\ has_red_child_node(Machine(heap, live, root), root)

\* C6: rbtree_erase of a key that is not present frees nothing and leaves
\* every cell, link and colour and tree->root as they were.
C6_AbsentEraseChangesNothing ==
    (last.op = "erase" /\ ~last.had) => last.same

\* an absent erase on a tree of at least three nodes
C6_Witness ==
    /\ last.op = "erase" /\ ~last.had
    /\ Cardinality(live) >= 3

\* C7: once every inserted key has been erased again, tree->root is the
\* sentinel (and no cell is left allocated).
C7_EraseAllGivesEmptyTree ==
    present = {} => (root = nil_node /\ live = {})

\* the erase that removed the last key
C7_Witness ==
    /\ present = {}
    /\ last.op = "erase" /\ last.had
    /\ root = nil_node

\* C8: with n nodes the height h satisfies 2^h <= (n+1)^2.
C8_HeightBound ==
    Pow2(Height) <= (Cardinality(live) + 1) * (Cardinality(live) + 1)

\* every key inserted, the last one the largest, and the tree four levels tall
C8_Witness ==
    /\ present = Keys
    /\ last.op = "insert" /\ ~last.had /\ last.key = MaxKey
    /\ Height = 4

\* C10 as stated: no step stores a different value into the sentinel.
C10_SentinelNeverWritten ==
    last.nilw \subseteq {init_nil_node}

\* C10 amended: rbtree_insert never changes the sentinel; rbtree_erase changes
\* only its colour, only between BLACK and DOUBLE_BLACK, and the sentinel is
\* as init_nil_node left it whenever a call has returned.
C10_SentinelOnlyDoubleBlackInErase ==
    /\ heap[nil_node] = init_nil_node
    /\ last.op = "insert" => last.nilw \subseteq {init_nil_node}
    /\ \A c \in last.nilw :
          /\ c.key = init_nil_node.key
          /\ c.left = nil_node /\ c.right = nil_node
          /\ c.color \in {RBTREE_CLR_BLK, RBTREE_CLR_DBL}

\* an erase that made the sentinel DOUBLE_BLACK and emptied the tree
C10_Witness ==
    /\ last.op = "erase" /\ last.had
    /\ [init_nil_node EXCEPT !.color = RBTREE_CLR_DBL] \in last.nilw
    /\ root = nil_node

C12_NullHandleDoesNothing ==
    last.tree = NullPtr =>
        /\ last.st = "ok"
        /\ last.same /\ ~last.stored /\ last.nilw = {}
        /\ last.out = last.in
        /\ last.op = "traverse" => last.ret = 0 - 1

\* inorder_traversal(nullptr, result) with a filled vector on a tree of at
\* least three nodes
C12_Witness ==
    /\ last.tree = NullPtr /\ last.op = "traverse"
    /\ last.in # <<>> /\ last.ret = 0 - 1
    /\ Cardinality(live) >= 3

C14_AtMostOneDoubleBlackChild ==
    \A e \in last.ev : e.at = "maintain" => e.dbl <= 1

\* an erase that made the sentinel DOUBLE_BLACK and whose nested invocation
\* found exactly one DOUBLE_BLACK child
C14_Witness ==
    /\ last.op = "erase"
    /\ [init_nil_node EXCEPT !.color = RBTREE_CLR_DBL] \in last.nilw
    /\ \E e \in last.ev : e.at = "maintain" /\ e.depth = 1 /\ e.dbl = 1

\* C15: whenever __rbtree_erase_maintain finds one child DOUBLE_BLACK and
\* the other RED, the node it was called on is BLACK and both children of the
\* RED sibling are BLACK nodes, not the sentinel.
C15_RedSiblingUnderBlackNode ==
    \A e \in last.ev :
        e.at = "red sibling" => (e.rootclr = RBTREE_CLR_BLK /\ e.nephews)

\* an erase that met a red sibling
C15_Witness ==
    /\ last.op = "erase" /\ last.had
    /\ \E e \in last.ev : e.at = "red sibling" /\ e.rootclr = RBTREE_CLR_BLK
    /\ \E e \in last.ev : e.at = "maintain" /\ e.branch = "red sibling" /\ e.dbl = 1

\* C16: every rbtree_erase ends, and the nested __rbtree_erase_maintain made
\* after the red-sibling rotation is in a black-sibling case, makes no nested
\* call itself, and returns a root that is not DOUBLE_BLACK.
C16_RedSiblingReducesToBlackSibling ==
    /\ last.st = "ok"
    /\ \A e \in last.ev :
          (e.at = "maintain" /\ e.depth >= 1) =>
              /\ e.depth = 1
              /\ e.branch \in {"no red nephew", "sibling right", "sibling left"}
    /\ \A e \in last.ev : e.at = "nested" => e.rootclr # RBTREE_CLR_DBL

\* an erase whose nested invocation was in the case without a red nephew
C16_Witness ==
    /\ last.op = "erase" /\ last.had
    /\ \E e \in last.ev : e.at = "maintain" /\ e.depth = 1 /\ e.branch = "no red nephew"
    /\ \E e \in last.ev : e.at = "nested" /\ e.rootclr = RBTREE_CLR_BLK

\* C17: __rbtree_erase_maintain returns a subtree with no DOUBLE_BLACK below
\* its root and with the sentinel not DOUBLE_BLACK; the returned root is
\* DOUBLE_BLACK only after the case without a red nephew on a BLACK node; and
\* rbtree_erase leaves tree->root not DOUBLE_BLACK.
C17_DoubleBlackOnlyAtReturnedRoot ==
    /\ \A e \in last.ev :
          e.at = "return" =>
              /\ ~e.below
              /\ ~e.nil
              /\ e.rootdbl => (e.branch = "no red nephew" /\ e.was = RBTREE_CLR_BLK)
    /\ heap[root].color # RBTREE_CLR_DBL

\* an erase in which the DOUBLE_BLACK went up to tree->root, a node
C17_Witness ==
    /\ last.op = "erase" /\ last.had
    /\ root # nil_node
    /\ \E e \in last.ev : e.at = "return" /\ e.rootdbl
    /\ \E e \in last.ev : e.at = "root" /\ e.clr = RBTREE_CLR_DBL

\* C18: the node __rbtree_erase frees has at most one child other than the
\* sentinel; when it has one, the freed node is BLACK and the child is a RED
\* leaf, which line 339 makes BLACK; the colour line 339 stores is DOUBLE_BLACK
\* only when the child is the sentinel.
C18_FreedNodeHasAtMostARedLeaf ==
    \A e \in last.ev :
        e.at = "unlink" =>
            /\ e.kids <= 1
            /\ e.kids = 1 => /\ e.freed = RBTREE_CLR_BLK
                             /\ ~e.nil /\ e.was = RBTREE_CLR_RED /\ e.leaf
                             /\ e.now = RBTREE_CLR_BLK
            /\ e.now = RBTREE_CLR_DBL => e.nil

\* an erase that freed a BLACK node with one child, a RED leaf
C18_Witness ==
    /\ last.op = "erase" /\ last.had
    /\ \E e \in last.ev : e.at = "unlink" /\ e.kids = 1 /\ e.now = RBTREE_CLR_BLK

\* C19: every colour that rbtree_insert and rbtree_erase store, into a node or
\* into the sentinel, is RED (0), BLACK (1) or DOUBLE_BLACK (2), and so is the
\* colour of every node and of the sentinel between the calls.
C19_ColoursStayInRange ==
    /\ last.clr \subseteq {RBTREE_CLR_RED, RBTREE_CLR_BLK, RBTREE_CLR_DBL}
    /\ \A n \in live \cup {nil_node} :
           heap[n].color \in {RBTREE_CLR_RED, RBTREE_CLR_BLK, RBTREE_CLR_DBL}

\* an erase that stored each of the three colours, DOUBLE_BLACK by an addition
\* and RED by a subtraction of BLACK
C19_Witness ==
    /\ last.op = "erase" /\ last.had
    /\ last.clr = {RBTREE_CLR_RED, RBTREE_CLR_BLK, RBTREE_CLR_DBL}
    /\ \E e \in last.ev : e.at = "maintain" /\ e.branch = "no red nephew"

\* C20: whenever rbtree_insert_maintian finds both children of a node RED and
\* flips the colours (lines 115-120), the node is BLACK, and every path from
\* the node down to the sentinel holds as many BLACK nodes after the flip as
\* before it.
C20_ColourFlipKeepsBlackCounts ==
    \A e \in last.ev : e.at = "flip" => (e.was = RBTREE_CLR_BLK /\ e.kept)

\* an insert during which the flip fired
C20_Witness ==
    /\ last.op = "insert" /\ ~last.had
    /\ \E e \in last.ev : e.at = "flip" /\ e.was = RBTREE_CLR_BLK

\* C21: at every call of rbtree_insert_maintian during an rbtree_insert, the
\* subtree of the node passed in holds at most one parent-child edge with two
\* RED ends, that edge has the child just stored as one of its ends, and all
\* paths from the node down to the sentinel hold equally many BLACK nodes.
C21_AtMostOneRedRedEdgeAtMaintain ==
    \A e \in last.ev :
        e.at = "insert maintain" => (e.edges <= 1 /\ e.touch /\ e.bh)

\* an insert during which rbtree_insert_maintian was called on a subtree with
\* a RED-RED edge, and also on one without
C21_Witness ==
    /\ last.op = "insert" /\ ~last.had
    /\ \E e \in last.ev : e.at = "insert maintain" /\ e.edges = 1 /\ e.touch
    /\ \E e \in last.ev : e.at = "insert maintain" /\ e.edges = 0

\* C22: after every rbtree_insert and rbtree_erase no node has two RED
\* children, and the sibling of a DOUBLE_BLACK node that
\* __rbtree_erase_maintain meets in its black-sibling cases is BLACK and never
\* has two RED children.
C22_NoNodeWithTwoRedChildren ==
    /\ \A n \in live :
           ~(heap[heap[n].left].color = RBTREE_CLR_RED
             /\ heap[heap[n].right].color = RBTREE_CLR_RED)
    /\ \A e \in last.ev :
           e.at = "black sibling" => (e.clr = RBTREE_CLR_BLK /\ e.reds <= 1)

\* an erase that met a BLACK sibling with one RED child, leaving a tree in which
\* some node has a RED child
C22_Witness ==
    /\ last.op = "erase" /\ last.had
    /\ \E e \in last.ev : e.at = "black sibling" /\ e.reds = 1
    /\ \E n \in live : heap[heap[n].left].color = RBTREE_CLR_RED
                         \/ heap[heap[n].right].color = RBTREE_CLR_RED

\* C23: whenever rbtree_insert or rbtree_erase has returned, the sentinel is
\* BLACK and its left and right links point to the sentinel, and no rotation
\* made during the call had the sentinel as the node that moves up.
C23_SentinelRestoredAndNeverRotatedUp ==
    /\ heap[nil_node].color = RBTREE_CLR_BLK
    /\ heap[nil_node].left = nil_node /\ heap[nil_node].right = nil_node
    /\ \A e \in last.ev : e.at = "rotation" => ~e.nil

\* an erase that made the sentinel DOUBLE_BLACK and rotated, on a tree that is
\* not empty afterwards
C23_Witness ==
    /\ last.op = "erase" /\ last.had /\ root # nil_node
    /\ \E c \in last.nilw : c.color = RBTREE_CLR_DBL
    /\ \E e \in last.ev : e.at = "rotation" /\ ~e.nil

\* C24: an rbtree_insert of a new key allocates exactly one node and frees
\* none, an rbtree_erase of a present key frees exactly one and allocates
\* none, and any other insert or erase does neither; after every call the
\* nodes met from the root are exactly the allocated nodes not yet freed,
\* each met once, and every link of such a node leads to such a node or to
\* the sentinel.
C24_OneNodePerKeyAllReachableOnce ==
    /\ last.op \in {"insert", "erase"} =>
          /\ Cardinality({e \in last.ev : e.at = "new"})
                = (IF last.op = "insert" /\ ~last.had THEN 1 ELSE 0)
          /\ Cardinality({e \in last.ev : e.at = "delete"})
                = (IF last.op = "erase" /\ last.had THEN 1 ELSE 0)
    /\ SeqRange(Walk(heap, root, WalkFuel)) = live
    /\ Len(Walk(heap, root, WalkFuel)) = Cardinality(live)
    /\ Cardinality(live) = Cardinality(present)
    /\ \A n \in live : {heap[n].left, heap[n].right} \subseteq live \cup {nil_node}

\* an erase that freed one node of a tree of MaxKey nodes or more, after which
\* the others are all met from the root
C24_Witness ==
    /\ last.op = "erase" /\ last.had
    /\ Cardinality({e \in last.ev : e.at = "delete"}) = 1
    /\ Cardinality(live) >= MaxKey - 1
    /\ SeqRange(Walk(heap, root, WalkFuel)) = live

\* C25: on the parent-pointer tree every rbtree_flip_color(node) leaves node
\* RED and both its children, left and right, BLACK, and changes no link.
C25_FlipColorBlackensBothChildren ==
    \A e \in ilast.ev :
        /\ e.node = RBTREE_NODE_CLR_RED
        /\ e.left = RBTREE_NODE_CLR_BCK
        /\ e.right = RBTREE_NODE_CLR_BCK
        /\ e.links

\* C26: on the parent-pointer tree, after every rbtree_insert that returns, the
\* root is BLACK, no RED node has a RED child, and all paths from the root to
\* the sentinel hold equally many BLACK nodes.
C26_IterInsertKeepsRedBlackProperties ==
    (ilast.op = "insert" /\ istatus = "ok") =>
        /\ iheap[iroot].color = RBTREE_NODE_CLR_BCK
        /\ \A n \in 1..icount :
              \A c \in {iheap[n].left, iheap[n].right} \ {NullPtr} :
                 ~(iheap[n].color = RBTREE_NODE_CLR_RED
                   /\ iheap[c].color = RBTREE_NODE_CLR_RED)
        /\ Cardinality(IterBlackCounts(iheap, iroot, LoopFuel)) = 1

\* C27: on the parent-pointer tree every rbtree_insert returns: no null
\* pointer is dereferenced and the loop of rbtree_insert_adjustment ends.
C27_IterInsertAlwaysReturns ==
    ilast.op = "insert" => istatus = "ok"

\* C9: on the parent-pointer tree rbtree_search returns a node (not nullptr)
\* exactly when the key was inserted, for negative, zero and positive keys.
C9_SearchFindsExactlyInserted ==
    ilast.op = "search" => ((ilast.ret # NullPtr) <=> (ilast.key \in ikeys))

====
